---------------------------- MODULE Spec2Model ----------------------------
(***************************************************************************)
(* Model of the HUM backend: the two reward HTTP handlers (server.js and   *)
(* its "clean" variant) and the UI-amount conversion helpers appended to   *)
(* server.js.                                                              *)
(*                                                                         *)
(* The conversion helpers compute with ECMAScript Numbers (IEEE-754        *)
(* binary64) and BigInts.  TLC's integers are 32 bits wide, so unbounded   *)
(* naturals are kept as little-endian sequences of 15-bit limbs ("Big"),   *)
(* and a Number is a record over them, rounded to 53 significant bits with *)
(* round-half-to-even exactly where the language rounds.                   *)
(***************************************************************************)
EXTENDS Integers, Sequences, FiniteSets, TLC

(***************************************************************************)
(* Unbounded naturals (the value range of BigInt, and the exact            *)
(* intermediate results that a Number operation rounds).                   *)
(***************************************************************************)
LimbBits == 15
LimbBase == 2^15

Max(a, b) == IF a >= b THEN a ELSE b
Min(a, b) == IF a <= b THEN a ELSE b
MaxOf(S) == CHOOSE x \in S : \A y \in S : y <= x
MinOf(S) == CHOOSE x \in S : \A y \in S : x <= y

\* TLC evaluates on a shallow stack, so the limb operations are written
\* without recursion wherever a closed form exists (carry look-ahead), and
\* the remaining recursions run once per limb.
Limb(a, i) == IF i >= 1 /\ i <= Len(a) THEN a[i] ELSE 0

Zeros(n) == [i \in 1..n |-> 0]

\* a without its leading zero limbs
BigNorm(a) == SubSeq(a, 1, MaxOf({0} \cup {i \in 1..Len(a) : a[i] # 0}))

\* 0 <= n < 2^31
BigOfInt(n) ==
    BigNorm(<<n % LimbBase, (n \div LimbBase) % LimbBase, n \div (LimbBase * LimbBase)>>)

\* a < 2^31
BigToInt(a) == Limb(a, 1) + LimbBase * Limb(a, 2) + LimbBase * LimbBase * Limb(a, 3)

\* The highest limb in which a and b differ (0 if none)
TopDiff(a, b) == MaxOf({0} \cup {i \in 1..Max(Len(a), Len(b)) : Limb(a, i) # Limb(b, i)})

CmpLimb(a, b, i) ==
    IF Limb(a, i) > Limb(b, i) THEN 1 ELSE IF Limb(a, i) < Limb(b, i) THEN -1 ELSE 0

\* -1, 0, 1 as a < b, a = b, a > b
BigCmp(a, b) == CmpLimb(a, b, TopDiff(a, b))

\* The carry into limb i of a + b
Carry(a, b, i) ==
    IF \E j \in 1..(i - 1) :
          /\ Limb(a, j) + Limb(b, j) >= LimbBase
          /\ \A t \in (j + 1)..(i - 1) : Limb(a, t) + Limb(b, t) = LimbBase - 1
    THEN 1 ELSE 0

BigAdd(a, b) ==
    BigNorm([i \in 1..(Max(Len(a), Len(b)) + 1) |->
                (Limb(a, i) + Limb(b, i) + Carry(a, b, i)) % LimbBase])

\* The borrow out of limb i of a - b
Borrow(a, b, i) ==
    IF \E j \in 1..(i - 1) :
          /\ Limb(a, j) < Limb(b, j)
          /\ \A t \in (j + 1)..(i - 1) : Limb(a, t) = Limb(b, t)
    THEN 1 ELSE 0

\* a - b for a >= b
BigSub(a, b) ==
    BigNorm([i \in 1..Len(a) |-> (a[i] - Limb(b, i) - Borrow(a, b, i) + LimbBase) % LimbBase])

\* a * k for 0 <= k < LimbBase: the limb products, split into low and high
\* halves, are two naturals that add up to the product
BigMulSmall(a, k) ==
    BigAdd([i \in 1..Len(a) |-> (a[i] * k) % LimbBase],
           [i \in 1..(Len(a) + 1) |-> IF i = 1 THEN 0 ELSE (a[i - 1] * k) \div LimbBase])

\* acc + a * (b from limb j on); the length test never succeeds and keeps
\* the running sum evaluated as it goes
RECURSIVE BigMulFrom(_, _, _, _)
BigMulFrom(a, b, j, acc) ==
    IF j > Len(b) \/ Len(acc) > Len(a) + Len(b) THEN acc
    ELSE BigMulFrom(a, b, j + 1, BigAdd(acc, Zeros(j - 1) \o BigMulSmall(a, b[j])))

BigMul(a, b) == BigMulFrom(a, b, 1, << >>)

IntBitLen(n) == MinOf({k \in 0..31 : k = 31 \/ 2^k > n})

BigBitLen(a) ==
    IF a = << >> THEN 0 ELSE (Len(a) - 1) * LimbBits + IntBitLen(a[Len(a)])

\* a * 2^n
BigShl(a, n) ==
    BigNorm([i \in 1..(Len(a) + (n \div LimbBits) + 1) |->
                ((Limb(a, i - (n \div LimbBits)) * 2^(n % LimbBits)) % LimbBase)
                + (Limb(a, i - (n \div LimbBits) - 1) \div 2^(LimbBits - (n % LimbBits)))])

\* floor(a / 2^n)
BigShr(a, n) ==
    BigNorm([i \in 1..Len(a) |->
                (Limb(a, i + (n \div LimbBits)) \div 2^(n % LimbBits))
                + (Limb(a, i + (n \div LimbBits) + 1) % 2^(n % LimbBits))
                  * 2^(LimbBits - (n % LimbBits))])

\* a mod 2^n
BigLowBits(a, n) ==
    BigNorm([i \in 1..Min(Len(a), (n \div LimbBits) + 1) |->
                IF i <= n \div LimbBits THEN a[i] ELSE a[i] % 2^(n % LimbBits)])

\* bit n of a, the lowest being bit 0
BigBit(a, n) == (Limb(a, (n \div LimbBits) + 1) \div 2^(n % LimbBits)) % 2

BigIsOdd(a) == a # << >> /\ a[1] % 2 = 1

BigOne == <<1>>

SquareTimes(h, k) == BigMulSmall(BigMul(h, h), k)

\* 10^d by repeated squaring
RECURSIVE BigPow10(_)
BigPow10(d) ==
    IF d < 5 THEN BigOfInt(10^d)
    ELSE SquareTimes(BigPow10(d \div 2), IF d % 2 = 0 THEN 1 ELSE 10)

\* Schoolbook long division (Knuth's algorithm D): b has the top bit of its
\* top limb set and cur < b * LimbBase, so the estimate of the quotient limb
\* from the two leading limbs of cur is at most two too large.
QuotientEstimate(cur, b) ==
    Min(LimbBase - 1, (Limb(cur, Len(b) + 1) * LimbBase + Limb(cur, Len(b))) \div b[Len(b)])

LargestFitting(cur, b, est) ==
    MaxOf({0} \cup {d \in Max(0, est - 2)..est : BigCmp(BigMulSmall(b, d), cur) <= 0})

QuotientLimb(cur, b) == LargestFitting(cur, b, QuotientEstimate(cur, b))

RECURSIVE BigDivModFrom(_, _, _, _, _)
DivideStep(a, b, i, q, cur, d) ==
    BigDivModFrom(a, b, i - 1, <<d>> \o q, BigSub(cur, BigMulSmall(b, d)))

\* the limbs of a from i down still to be divided, q the quotient limbs and
\* r < b the remainder so far (the length test never succeeds and keeps the
\* remainder evaluated as it goes)
BigDivModFrom(a, b, i, q, r) ==
    IF i = 0 \/ Len(r) > Len(b) THEN [q |-> q, r |-> r]
    ELSE DivideStep(a, b, i, q, BigNorm(<<a[i]>> \o r),
                    QuotientLimb(BigNorm(<<a[i]>> \o r), b))

DivideShifted(a, b, s) ==
    BigDivModFrom(BigShl(a, s), BigShl(b, s), Len(BigShl(a, s)), << >>, << >>)

Unshifted(d, s) == [q |-> BigNorm(d.q), r |-> BigShr(d.r, s)]

\* quotient and remainder of a by b, b > 0
BigDivMod(a, b) ==
    Unshifted(DivideShifted(a, b, LimbBits - IntBitLen(b[Len(b)])),
              LimbBits - IntBitLen(b[Len(b)]))

(***************************************************************************)
(* ECMAScript Numbers.  A finite Number is (-1)^neg * m * 2^e with m < 2^53 *)
(* kept in canonical form: m has exactly 53 bits, or e is the least        *)
(* exponent (subnormals), or m = 0 and e = 0.                              *)
(***************************************************************************)
MantissaBits == 53
MinExponent == -1074
MaxExponent == 971

NumFin(neg, m, e) == [cls |-> "fin", neg |-> neg, m |-> m, e |-> e]
NumZero == NumFin(FALSE, << >>, 0)
NumInf(neg) == [cls |-> "inf", neg |-> neg, m |-> << >>, e |-> 0]
NumNaN == [cls |-> "nan", neg |-> FALSE, m |-> << >>, e |-> 0]

IsZero(x) == x.cls = "fin" /\ x.m = << >>

\* m * 2^e for a mantissa m that a rounding has left with at most 54 bits
Pack(neg, m, e) ==
    IF m = << >> THEN NumFin(neg, << >>, 0)
    ELSE IF BigBitLen(m) > MantissaBits
         THEN (IF e + 1 > MaxExponent THEN NumInf(neg) ELSE NumFin(neg, BigShr(m, 1), e + 1))
    ELSE IF e > MaxExponent THEN NumInf(neg)
    ELSE NumFin(neg, m, e)

\* n / 2^drop to the nearest integer, ties to even; sticky says that the
\* exact value lies a little above n
RoundedShr(n, drop, sticky) ==
    IF /\ BigBit(n, drop - 1) = 1
       /\ (sticky \/ BigLowBits(n, drop - 1) # << >> \/ BigBit(n, drop) = 1)
    THEN BigAdd(BigShr(n, drop), BigOne)
    ELSE BigShr(n, drop)

RoundDrop(neg, n, e, sticky, drop) ==
    Pack(neg, IF drop <= 0 THEN BigShl(n, -drop) ELSE RoundedShr(n, drop, sticky), e + drop)

\* n * 2^e (plus something below the last bit of n when sticky), rounded to
\* the nearest Number, ties to the even mantissa
RoundBig(neg, n, e, sticky) ==
    IF n = << >> THEN NumFin(neg, << >>, 0)
    ELSE RoundDrop(neg, n, e, sticky, Max(BigBitLen(n) - MantissaBits, MinExponent - e))

\* Number(bigint)
NumOfBig(a) == RoundBig(FALSE, a, 0, FALSE)

\* A Number literal with an integer value, |i| < 2^31
NumOfInt(i) == RoundBig(i < 0, BigOfInt(IF i < 0 THEN -i ELSE i), 0, FALSE)

NumOne == NumFin(FALSE, BigShl(BigOne, MantissaBits - 1), 1 - MantissaBits)

\* x * y
NumMul(x, y) ==
    IF x.cls = "nan" \/ y.cls = "nan" THEN NumNaN
    ELSE IF x.cls = "inf" \/ y.cls = "inf"
         THEN (IF IsZero(x) \/ IsZero(y) THEN NumNaN ELSE NumInf(x.neg # y.neg))
    ELSE RoundBig(x.neg # y.neg, BigMul(x.m, y.m), x.e + y.e, FALSE)

RoundQuotient(neg, d, e) == RoundBig(neg, d.q, e, d.r # << >>)

\* The quotient is taken to at least 55 bits
RatioShift(num, den) == Max(0, MantissaBits + 2 + BigBitLen(den) - BigBitLen(num))

\* (num / den) * 2^e for num, den > 0, rounded once: a remainder of the
\* division makes the quotient sticky
RoundRatio(neg, num, den, e) ==
    RoundQuotient(neg, BigDivMod(BigShl(num, RatioShift(num, den)), den),
                  e - RatioShift(num, den))

\* x / y
NumDiv(x, y) ==
    IF x.cls = "nan" \/ y.cls = "nan" THEN NumNaN
    ELSE IF x.cls = "inf"
         THEN (IF y.cls = "inf" THEN NumNaN ELSE NumInf(x.neg # y.neg))
    ELSE IF y.cls = "inf" THEN NumFin(x.neg # y.neg, << >>, 0)
    ELSE IF IsZero(y)
         THEN (IF IsZero(x) THEN NumNaN ELSE NumInf(x.neg # y.neg))
    ELSE IF IsZero(x) THEN NumFin(x.neg # y.neg, << >>, 0)
    ELSE RoundRatio(x.neg # y.neg, x.m, y.m, x.e - y.e)

\* Math.trunc(x)
NumTrunc(x) ==
    IF x.cls # "fin" \/ x.e >= 0 THEN x
    ELSE RoundBig(x.neg, BigShr(x.m, -x.e), 0, FALSE)

IsInteger(x) == x.cls = "fin" /\ (x.e >= 0 \/ BigLowBits(x.m, -x.e) = << >>)

\* The integer value of an integral non-negative Number
NumToBig(x) == IF x.e >= 0 THEN BigShl(x.m, x.e) ELSE BigShr(x.m, -x.e)

(***************************************************************************)
(* Strings are sequences of one-character strings, so that formatting and  *)
(* parsing are computed character by character.                            *)
(***************************************************************************)
DigitChars == <<"0", "1", "2", "3", "4", "5", "6", "7", "8", "9">>
IsDigit(c) == \E d \in 1..10 : DigitChars[d] = c
DigitVal(c) == (CHOOSE d \in 1..10 : DigitChars[d] = c) - 1

\* The decimal digits of v, 0 <= v < 10^9, at least one
IntChars(v) ==
    LET n == MinOf({k \in 1..10 : k = 10 \/ 10^k > v})
    IN  [i \in 1..n |-> DigitChars[((v \div 10^(n - i)) % 10) + 1]]

MaxDigits == 17

\* x < 10^j for positive finite x
BelowPower(x, j) ==
    BigCmp(BigShl(BigMul(x.m, BigPow10(Max(-j, 0))), Max(x.e, 0)),
           BigShl(BigPow10(Max(j, 0)), Max(-x.e, 0))) < 0

\* The decimal exponent that the bit length of x suggests (log10(2) is
\* 0.30103 to five places), right to within one
DecimalEstimate(x) == (((BigBitLen(x.m) + x.e - 1) * 30103) \div 100000) + 1

\* The n with 10^(n-1) <= x < 10^n for positive finite x
DecimalExponent(x) ==
    MinOf({j \in (DecimalEstimate(x) - 1)..(DecimalEstimate(x) + 1) :
              j = DecimalEstimate(x) + 1 \/ BelowPower(x, j)})

\* Number::toString looks for the fewest digits k and the integer s of k
\* digits with s * 10^(n-k) rounding to x.  For x = m * 2^e with decimal
\* exponent n everything is counted in units of 2^min(e-2,0) *
\* 10^min(n-17,0), in which x, the midpoints to its neighbours and the
\* place values 10^(n-k), k <= 17, are all integers.

\* a quarter of the distance from x to the next Number above it
QuarterUlp(x, n) == BigShl(BigPow10(Max(MaxDigits - n, 0)), Max(x.e - 2, 0))

\* the place value 10^(n-k)
PlaceValue(x, n, k) == BigShl(BigPow10(n - k + Max(MaxDigits - n, 0)), Max(2 - x.e, 0))

\* The distance down to the midpoint below x: half of that above when x is
\* a power of two
LowGap(x, w) ==
    IF /\ BigBitLen(x.m) = MantissaBits
       /\ BigLowBits(x.m, MantissaBits - 1) = << >>
       /\ x.e > MinExponent
    THEN w ELSE BigMulSmall(w, 2)

\* A decimal at distance dist from x rounds to x when it lies within the
\* gap, the midpoint itself included when x has an even mantissa
Within(x, dist, gap) == BigCmp(dist, gap) < (IF BigIsOdd(x.m) THEN 0 ELSE 1)

\* d is the quotient and remainder of x by the place value u: whether the
\* multiple of u below (at) x, and the one above it, round to x
LoFits(x, w, d) == d.q # << >> /\ Within(x, d.r, LowGap(x, w))
HiFits(x, w, u, d) == Within(x, BigSub(u, d.r), BigMulSmall(w, 2))

\* The nearer of the two multiples among those that round to x, the even
\* one if they are equally near
Nearest(x, w, u, d) ==
    IF ~HiFits(x, w, u, d) THEN d.q
    ELSE IF ~LoFits(x, w, d) \/ BigCmp(BigMulSmall(d.r, 2), u) > (IF BigIsOdd(d.q) THEN -1 ELSE 0)
         THEN BigAdd(d.q, BigOne)
    ELSE d.q

\* The k decimal digits of s < 10^17, s given as quotient and remainder by
\* 10^9
DigitsOfParts(d, k) ==
    [i \in 1..k |->
        IF k - i >= 9 THEN DigitChars[((BigToInt(d.q) \div 10^(k - i - 9)) % 10) + 1]
        ELSE DigitChars[((BigToInt(d.r) \div 10^(k - i)) % 10) + 1]]

DigitsOf(s, k) == DigitsOfParts(BigDivMod(s, BigPow10(9)), k)

\* The digits ds and the exponent n laid out as Number::toString lays them
\* out
FormatDigits(ds, n) ==
    LET k == Len(ds)
    IN  IF k <= n /\ n <= 21 THEN ds \o [i \in 1..(n - k) |-> "0"]
        ELSE IF 0 < n /\ n <= 21 THEN SubSeq(ds, 1, n) \o <<".">> \o SubSeq(ds, n + 1, k)
        ELSE IF -6 < n /\ n <= 0 THEN <<"0", ".">> \o [i \in 1..(-n) |-> "0"] \o ds
        ELSE LET ex == <<"e">> \o (IF n - 1 < 0 THEN <<"-">> ELSE <<"+">>)
                       \o IntChars(IF n - 1 < 0 THEN 1 - n ELSE n - 1)
             IN  IF k = 1 THEN ds \o ex
                 ELSE <<ds[1]>> \o <<".">> \o SubSeq(ds, 2, k) \o ex

\* s of k digits; a rounding up to 10^k is the single digit 1 one place
\* higher
FormatShortest(s, k, n) ==
    IF s = BigPow10(k) THEN FormatDigits(<<"1">>, n + 1)
    ELSE FormatDigits(DigitsOf(s, k), n)

FormatWithDigits(x, n, w, xs, k) ==
    FormatShortest(Nearest(x, w, PlaceValue(x, n, k), BigDivMod(xs, PlaceValue(x, n, k))), k, n)

Fits(x, w, u, d) == LoFits(x, w, d) \/ HiFits(x, w, u, d)

\* Whether some decimal of k digits rounds to x; xs is x in the common unit
FitsWithDigits(x, n, w, xs, k) ==
    Fits(x, w, PlaceValue(x, n, k), BigDivMod(xs, PlaceValue(x, n, k)))

\* The least k in lo..hi for which k digits suffice (if k do, so do k + 1)
RECURSIVE LeastDigits(_, _, _, _, _, _)
LeastDigits(x, n, w, xs, lo, hi) ==
    IF lo >= hi THEN lo
    ELSE IF FitsWithDigits(x, n, w, xs, (lo + hi) \div 2)
         THEN LeastDigits(x, n, w, xs, lo, (lo + hi) \div 2)
    ELSE LeastDigits(x, n, w, xs, ((lo + hi) \div 2) + 1, hi)

FormatScaled(x, n, w, xs) ==
    FormatWithDigits(x, n, w, xs, LeastDigits(x, n, w, xs, 1, MaxDigits))

FormatWithExponent(x, n) ==
    FormatScaled(x, n, QuarterUlp(x, n), BigMul(BigShl(x.m, 2), QuarterUlp(x, n)))

\* Number::toString(x) in radix 10
NumToString(x) ==
    IF x.cls = "nan" THEN <<"N", "a", "N">>
    ELSE IF x.cls = "inf"
         THEN (IF x.neg THEN <<"-">> ELSE << >>) \o <<"I", "n", "f", "i", "n", "i", "t", "y">>
    ELSE IF x.m = << >> THEN <<"0">>
    ELSE (IF x.neg THEN <<"-">> ELSE << >>) \o FormatWithExponent(x, DecimalExponent(x))

\* The first index from `from` on that holds no digit (Len + 1 if none)
DigitsEnd(str, from) ==
    MinOf({i \in from..(Len(str) + 1) : i = Len(str) + 1 \/ ~IsDigit(str[i])})

CharAt(str, i) == IF i >= 1 /\ i <= Len(str) THEN str[i] ELSE ""

\* str[from..to], cut at the end of str
Slice(str, from, to) ==
    [i \in 1..(Min(to, Len(str)) - from + 1) |-> str[from + i - 1]]

\* The value of up to four digits ds[from..to]
ChunkVal(ds, from, to) ==
    (IF to - 3 >= from THEN DigitVal(ds[to - 3]) * 1000 ELSE 0)
    + (IF to - 2 >= from THEN DigitVal(ds[to - 2]) * 100 ELSE 0)
    + (IF to - 1 >= from THEN DigitVal(ds[to - 1]) * 10 ELSE 0)
    + (IF to >= from THEN DigitVal(ds[to]) ELSE 0)

\* The natural number written by the digit string ds, four digits at a
\* time from the left (the length test never succeeds and keeps the running
\* value evaluated as it goes)
RECURSIVE BigOfDigitsFrom(_, _, _)
BigOfDigitsFrom(ds, to, acc) ==
    IF to > Len(ds) \/ Len(acc) > Len(ds) THEN acc
    ELSE BigOfDigitsFrom(ds, to + 4,
                         BigAdd(BigMulSmall(acc, 10000), BigOfInt(ChunkVal(ds, to - 3, to))))

BigOfDigits(ds) ==
    IF ds = << >> THEN << >>
    ELSE BigOfDigitsFrom(ds, ((Len(ds) + 3) % 4) + 5,
                         BigOfInt(ChunkVal(ds, 1, ((Len(ds) + 3) % 4) + 1)))

\* The Number nearest to s * 10^j
NumOfDecimal(neg, s, j) ==
    RoundRatio(neg, BigMul(s, BigPow10(Max(j, 0))), BigPow10(Max(-j, 0)), 0)

\* The digits ds of the literal's mantissa (s is their value) and the power
\* of ten j that scales them
DecimalValue(neg, ds, s, j) ==
    IF ds = << >> THEN NumNaN
    ELSE IF s = << >> THEN NumFin(neg, << >>, 0)
    ELSE IF j + Len(ds) > 400 THEN NumInf(neg)
    ELSE IF j + Len(ds) < -400 THEN NumFin(neg, << >>, 0)
    ELSE NumOfDecimal(neg, s, j)

ParseDigits(neg, ds, j) == DecimalValue(neg, ds, BigOfDigits(ds), j)

\* The digits of the exponent part that starts with the "e" at index at
ExponentFrom(str, at) ==
    IF CharAt(str, at + 1) = "-" \/ CharAt(str, at + 1) = "+" THEN at + 2 ELSE at + 1

ExponentDigits(str, at) ==
    IF CharAt(str, at) = "e" \/ CharAt(str, at) = "E"
    THEN Slice(str, ExponentFrom(str, at), DigitsEnd(str, ExponentFrom(str, at)) - 1)
    ELSE << >>

ExponentMagnitude(ds) == IF Len(ds) > 4 THEN 9999 ELSE ChunkVal(ds, 1, Len(ds))

ExponentValue(str, at) ==
    IF CharAt(str, at + 1) = "-" THEN -ExponentMagnitude(ExponentDigits(str, at))
    ELSE ExponentMagnitude(ExponentDigits(str, at))

\* The integer digits are str[intFrom..intEnd-1], the fraction digits
\* str[intEnd+1..fracEnd-1]
ParseFraction(str, intFrom, intEnd, fracEnd) ==
    ParseDigits(CharAt(str, 1) = "-",
                Slice(str, intFrom, intEnd - 1) \o Slice(str, intEnd + 1, fracEnd - 1),
                ExponentValue(str, fracEnd) - Max(fracEnd - intEnd - 1, 0))

ParseMantissa(str, intFrom, intEnd) ==
    ParseFraction(str, intFrom, intEnd,
                  IF CharAt(str, intEnd) = "." THEN DigitsEnd(str, intEnd + 1) ELSE intEnd)

ParseUnsigned(str, intFrom) ==
    IF Slice(str, intFrom, intFrom + 7) = <<"I", "n", "f", "i", "n", "i", "t", "y">>
    THEN NumInf(CharAt(str, 1) = "-")
    ELSE ParseMantissa(str, intFrom, DigitsEnd(str, intFrom))

\* parseFloat(str): the longest prefix of str that is a decimal literal
\* (sign, digits, fraction, exponent) is converted; NaN when there is none.
\* Leading white space is not modelled (no caller of the repository
\* produces it).
ParseFloat(str) ==
    ParseUnsigned(str, IF CharAt(str, 1) = "+" \/ CharAt(str, 1) = "-" THEN 2 ELSE 1)

(***************************************************************************)
(* Math.exp.  The language leaves its precision to the implementation      *)
(* except for exp(+0) = exp(-0) = 1; elsewhere the model takes the Number  *)
(* nearest to e^x, computed in fixed point with ExpFracBits fractional     *)
(* bits: the argument is halved until it is below 1/4, the power series is *)
(* summed until its terms vanish, and the sum is squared back.             *)
(***************************************************************************)
ExpFracBits == 100

RECURSIVE ExpSeries(_, _, _, _)
ExpSeries(y, k, term, sum) ==
    IF term = << >> \/ sum = << >> THEN sum
    ELSE ExpSeries(y, k + 1,
                   BigDivMod(BigShr(BigMul(term, y), ExpFracBits), BigOfInt(k)).q,
                   BigAdd(sum, term))

RECURSIVE ExpSquare(_, _)
ExpSquare(v, times) ==
    IF times = 0 \/ v = << >> THEN v
    ELSE ExpSquare(BigShr(BigMul(v, v), ExpFracBits), times - 1)

\* |x| / 2^halvings in fixed point
ExpArgument(x, halvings) ==
    IF x.e + ExpFracBits - halvings >= 0
    THEN BigShl(x.m, x.e + ExpFracBits - halvings)
    ELSE BigShr(x.m, halvings - x.e - ExpFracBits)

\* e^|x| in fixed point
ExpFixed(x, halvings) ==
    ExpSquare(ExpSeries(ExpArgument(x, halvings), 2, ExpArgument(x, halvings),
                        BigShl(BigOne, ExpFracBits)),
              halvings)

\* The reciprocal is taken with as many extra bits as e^|x| has integer bits
ExpExtraBits(pos) == 2 * Max(0, BigBitLen(pos) - ExpFracBits)

ExpRound(neg, pos) ==
    IF neg
    THEN RoundBig(FALSE, BigDivMod(BigShl(BigOne, 2 * ExpFracBits + ExpExtraBits(pos)), pos).q,
                  -(ExpFracBits + ExpExtraBits(pos)), TRUE)
    ELSE RoundBig(FALSE, pos, -ExpFracBits, TRUE)

\* Math.exp(x)
NumExp(x) ==
    IF x.cls = "nan" THEN NumNaN
    ELSE IF x.cls = "inf" THEN (IF x.neg THEN NumZero ELSE NumInf(FALSE))
    ELSE IF x.m = << >> THEN NumOne
    ELSE IF BigBitLen(x.m) + x.e > 10 THEN (IF x.neg THEN NumZero ELSE NumInf(FALSE))
    ELSE ExpRound(x.neg, ExpFixed(x, Max(0, BigBitLen(x.m) + x.e + 2)))

(***************************************************************************)
(* The conversion helpers (second half of server.js).  Timestamps and      *)
(* rates are Numbers with integer values below 2^31 in every call of the   *)
(* model, so they are carried as integers and their differences are exact. *)
(***************************************************************************)
ONE_IN_BASIS_POINTS == 10000

\* 60 * 60 * 24 * 365.24
SECONDS_PER_YEAR ==
    NumMul(NumMul(NumMul(NumOfInt(60), NumOfInt(60)), NumOfInt(24)),
           ParseFloat(<<"3", "6", "5", ".", "2", "4">>))

calculateExponentFromEpoch(t1, t2, r) ==
    NumExp(NumDiv(NumMul(NumOfInt(r), NumOfInt(t2)),
                  NumMul(SECONDS_PER_YEAR, NumOfInt(ONE_IN_BASIS_POINTS))))

calculateExponentForTimesAndRate(t1, t2, r) ==
    LET timespan  == t2 - t1
        numerator == NumMul(NumOfInt(r), NumOfInt(timespan))
        exponent  == NumDiv(numerator, NumMul(SECONDS_PER_YEAR, NumOfInt(ONE_IN_BASIS_POINTS)))
    IN  NumExp(exponent)

\* Math.pow(10, decimals)
getDecimalFactor(decimals) == NumOfBig(BigPow10(decimals))

uiAmountToAtomicUiAmount(uiAmount, decimals) ==
    LET uiAmountNumber == ParseFloat(uiAmount)
        decimalFactor  == getDecimalFactor(decimals)
    IN  NumMul(uiAmountNumber, decimalFactor)

\* BigInt(x) of a Number: a RangeError unless x is an integer
ToBigInt(x) ==
    IF IsInteger(x)
    THEN [thrown |-> FALSE, neg |-> x.neg /\ x.m # << >>, mag |-> NumToBig(x)]
    ELSE [thrown |-> TRUE, neg |-> FALSE, mag |-> << >>]

amountToUiAmountForInterestBearingMintWithoutSimulation(amount, decimals, currentTimestamp, lastUpdateTimestamp, initializationTimestamp, preUpdateAverageRate, currentRate) ==
    LET preUpdateExp  == calculateExponentForTimesAndRate(initializationTimestamp,
                                                          lastUpdateTimestamp,
                                                          preUpdateAverageRate)
        postUpdateExp == calculateExponentForTimesAndRate(lastUpdateTimestamp,
                                                          currentTimestamp, currentRate)
        totalScale    == NumMul(preUpdateExp, postUpdateExp)
        scaledAmount  == NumMul(NumOfBig(amount), totalScale)
        decimalFactor == getDecimalFactor(decimals)
    IN  NumToString(NumDiv(NumTrunc(scaledAmount), decimalFactor))

amountToUiAmountForScaledUiAmountMintWithoutSimulation(amount, decimals, multiplier) ==
    LET scaledAmount  == NumMul(NumOfBig(amount), multiplier)
        decimalFactor == getDecimalFactor(decimals)
    IN  NumToString(NumDiv(NumTrunc(scaledAmount), decimalFactor))

\* The branch for regular mints of amountToUiAmountForMintWithoutSimulation:
\* (Number(amount) / decimalFactor).toString()
PlainUiAmount(amount, decimals) ==
    LET decimalFactor == getDecimalFactor(decimals)
    IN  NumToString(NumDiv(NumOfBig(amount), decimalFactor))

uiAmountToAmountForInterestBearingMintWithoutSimulation(uiAmount, decimals, currentTimestamp, lastUpdateTimestamp, initializationTimestamp, preUpdateAverageRate, currentRate) ==
    LET uiAmountScaled    == uiAmountToAtomicUiAmount(uiAmount, decimals)
        preUpdateExp      == calculateExponentForTimesAndRate(initializationTimestamp,
                                                              lastUpdateTimestamp,
                                                              preUpdateAverageRate)
        postUpdateExp     == calculateExponentForTimesAndRate(lastUpdateTimestamp,
                                                              currentTimestamp, currentRate)
        totalScale        == NumMul(preUpdateExp, postUpdateExp)
        originalPrincipal == NumDiv(uiAmountScaled, totalScale)
    IN  ToBigInt(NumTrunc(originalPrincipal))

uiAmountToAmountForScaledUiAmountMintWithoutSimulation(uiAmount, decimals, multiplier) ==
    LET uiAmountScaled == uiAmountToAtomicUiAmount(uiAmount, decimals)
        rawAmount      == NumDiv(uiAmountScaled, multiplier)
    IN  ToBigInt(NumTrunc(rawAmount))

\* The branch for regular mints of uiAmountToAmountForMintWithoutSimulation:
\* BigInt(Math.trunc(uiAmountToAtomicUiAmount(uiAmount, decimals)))
PlainAmount(uiAmount, decimals) ==
    ToBigInt(NumTrunc(uiAmountToAtomicUiAmount(uiAmount, decimals)))

(***************************************************************************)
(* The ledger as the conversion helpers see it.  unpackMint and the two    *)
(* extension getters are imported from modules that are not part of the    *)
(* sources at hand; they are modelled by their contract: account data      *)
(* either decodes to a mint (decimals, the interest-bearing configuration  *)
(* or none, the scaled-UI configuration or none) or the decoder throws.    *)
(***************************************************************************)
TOKEN_PROGRAM_ID == "TokenkegQfeZyiNwAJbNbGKPFXCWuBvf9Ss623VQ5DA"
TOKEN_2022_PROGRAM_ID == "TokenzQdBNbLqP5VEhdkAS6EPFLC1PHnBqCXEpPxuEb"
SYSTEM_PROGRAM_ID == "11111111111111111111111111111111"

NoInterest ==
    [present |-> FALSE, initializationTimestamp |-> 0, lastUpdateTimestamp |-> 0,
     preUpdateAverageRate |-> 0, currentRate |-> 0]

Interest(init, last, pre, cur) ==
    [present |-> TRUE, initializationTimestamp |-> init, lastUpdateTimestamp |-> last,
     preUpdateAverageRate |-> pre, currentRate |-> cur]

NoScaled ==
    [present |-> FALSE, multiplier |-> NumZero, newMultiplier |-> NumZero,
     newMultiplierEffectiveTimestamp |-> 0]

Scaled(mult, newMult, effective) ==
    [present |-> TRUE, multiplier |-> mult, newMultiplier |-> newMult,
     newMultiplierEffectiveTimestamp |-> effective]

MintData(decimals, interest, scaled) ==
    [malformed |-> FALSE, decimals |-> decimals, interest |-> interest, scaled |-> scaled]

Garbage == [malformed |-> TRUE, decimals |-> 0, interest |-> NoInterest, scaled |-> NoScaled]

\* getAccountInfo resolves to null for an address that holds no account
NullAccount == [exists |-> FALSE, owner |-> "", data |-> Garbage]
Account(owner, data) == [exists |-> TRUE, owner |-> owner, data |-> data]

NotDecoded == [decoded |-> FALSE, decimals |-> 0, interest |-> NoInterest, scaled |-> NoScaled]

\* unpackMint(mint, accountInfo, programId): throws on data that is no mint
unpackMintThrows(accountInfo) == accountInfo.data.malformed

unpackMint(accountInfo) ==
    [decoded |-> TRUE, decimals |-> accountInfo.data.decimals,
     interest |-> accountInfo.data.interest, scaled |-> accountInfo.data.scaled]

getInterestBearingMintConfigState(mintInfo) == mintInfo.interest
getScaledUiAmountConfig(mintInfo) == mintInfo.scaled

(***************************************************************************)
(* Bounds of the model                                                     *)
(***************************************************************************)
\* amounts offered to the dispatch functions: 0 .. MaxHalfTokens half tokens
MaxHalfTokens == 3
\* clock readings: 999 .. 999 + MaxClockTicks
MaxClockTicks == 2
\* interest rates: 0 .. MaxRateSteps steps of 5000 basis points
MaxRateSteps == 1

HUM_DECIMALS == 6

Amounts == {BigOfInt(500000 * k) : k \in 0..MaxHalfTokens}

NotANumber == <<"a", "b", "c">>

HalfTokens(k) == IF k % 2 = 0 THEN IntChars(k \div 2) ELSE IntChars(k \div 2) \o <<".", "5">>

UiAmounts == {HalfTokens(k) : k \in 0..MaxHalfTokens} \cup {NotANumber}

ClockReadings == {999 + k : k \in 0..MaxClockTicks}

Rates == {5000 * k : k \in 0..MaxRateSteps}

InterestConfigs == {Interest(0, 500, pre, cur) : pre \in Rates, cur \in Rates}

ScaledConfigs == {Scaled(NumOfInt(2), NumOfInt(3), 1000)}

Mints ==
    {MintData(d, NoInterest, NoScaled) : d \in {0, HUM_DECIMALS}}
    \cup {MintData(HUM_DECIMALS, i, NoScaled) : i \in InterestConfigs}
    \cup {MintData(HUM_DECIMALS, NoInterest, c) : c \in ScaledConfigs}
    \cup {MintData(HUM_DECIMALS, i, c) : i \in {Interest(0, 500, 5000, 0)}, c \in ScaledConfigs}

LedgerAccounts ==
    {NullAccount}
    \cup {Account(o, d) : o \in {TOKEN_PROGRAM_ID, TOKEN_2022_PROGRAM_ID}, d \in Mints \cup {Garbage}}
    \cup {Account(SYSTEM_PROGRAM_ID, d) :
            d \in {Garbage, MintData(HUM_DECIMALS, NoInterest, NoScaled),
                   MintData(HUM_DECIMALS, NoInterest, Scaled(NumOfInt(2), NumOfInt(3), 1000))}}

\* A local that has not been assigned yet, and one that holds a value
Unassigned == [assigned |-> FALSE, value |-> NullAccount]
Assigned(v) == [assigned |-> TRUE, value |-> v]

NoBigInt == [thrown |-> FALSE, neg |-> FALSE, mag |-> << >>]

VARIABLES
    op,            \* the exported function being executed ("" before the call)
    pc,            \* where it stands
    amount,        \* its argument amount (a bigint)
    uiAmount,      \* its argument uiAmount (a string)
    mint,          \* the ledger: the account stored at the mint address
    accountInfo,   \* local: what getAccountInfo resolved to
    mintInfo,      \* local: what unpackMint returned
    timestamp,     \* local: what getSysvarClockTimestamp returned
    formula,       \* the conversion formula that has been evaluated
    uiResult,      \* the string returned
    amountResult,  \* the bigint returned
    error,         \* the error the call was rejected with
    calls,         \* the ledger requests issued, in order
    simulation,    \* amountToUiAmount: the value simulateTransaction resolved to
    outcome,       \* amountToUiAmount: the value returned
    request,       \* the HTTP request a client sent to the server
    webhook,       \* the handler of POST /adgem-webhook
    reward,        \* the handler of POST /reward
    transfers      \* the token transfers that completed, in order

vars == <<op, pc, amount, uiAmount, mint, accountInfo, mintInfo, timestamp, formula,
          uiResult, amountResult, error, calls, simulation, outcome, request, webhook,
          reward, transfers>>

\* The state of amountToUiAmount and of the HTTP server
serverVars == <<simulation, outcome, request, webhook, reward, transfers>>

\* The state of the dispatch functions
dispatchVars == <<mint, accountInfo, mintInfo, timestamp, formula, uiResult, amountResult,
                  uiAmount>>

\* No simulation has been run
\* A TransactionError, or null
NullErr == [null |-> TRUE, name |-> ""]
Err(name) == [null |-> FALSE, name |-> name]

NotSimulated == [resolved |-> FALSE, hasReturnData |-> FALSE, data |-> << >>,
                 encoding |-> "", err |-> NullErr, text |-> << >>]

NoOutcome == [kind |-> "none", text |-> << >>, err |-> NullErr]

\* The values of JavaScript that reach the handlers: undefined, numbers
\* (integers and NaN) and strings
Undefined == [type |-> "undefined", nan |-> FALSE, num |-> 0, str |-> << >>]
Num(n) == [type |-> "number", nan |-> FALSE, num |-> n, str |-> << >>]
NaN == [type |-> "number", nan |-> TRUE, num |-> 0, str |-> << >>]
Str(s) == [type |-> "string", nan |-> FALSE, num |-> 0, str |-> s]

\* A handler that has not been entered, and a request that was not sent
NotEntered == [pc |-> "idle", wallet |-> Undefined, amount |-> Undefined, fetched |-> FALSE,
               status |-> 0, success |-> FALSE, error |-> "", signature |-> ""]

NoRequest == [route |-> "", wallet |-> Undefined, amount |-> Undefined,
              query |-> Undefined, header |-> Undefined]

ServerIdle ==
    /\ simulation = NotSimulated
    /\ outcome = NoOutcome
    /\ request = NoRequest
    /\ webhook = NotEntered
    /\ reward = NotEntered
    /\ transfers = << >>

Forward == "amountToUiAmountForMintWithoutSimulation"
Inverse == "uiAmountToAmountForMintWithoutSimulation"

Idle ==
    /\ op = ""
    /\ pc = "idle"
    /\ amount = << >>
    /\ uiAmount = << >>
    /\ accountInfo = Unassigned
    /\ mintInfo = NotDecoded
    /\ timestamp = 0
    /\ formula = "none"
    /\ uiResult = << >>
    /\ amountResult = NoBigInt
    /\ error = ""
    /\ calls = << >>

Init ==
    /\ Idle
    /\ mint \in LedgerAccounts
    /\ ServerIdle

\* amountToUiAmountForMintWithoutSimulation(connection, mint, amount) is
\* called: it runs up to its first await
CallForward ==
    /\ pc = "idle"
    /\ \E a \in Amounts : amount' = a
    /\ op' = Forward
    /\ pc' = "awaitAccountInfo"
    /\ calls' = Append(calls, "getAccountInfo")
    /\ UNCHANGED <<uiAmount, mint, accountInfo, mintInfo, timestamp, formula, uiResult,
                   amountResult, error>>
    /\ UNCHANGED serverVars

\* uiAmountToAmountForMintWithoutSimulation(connection, mint, uiAmount)
CallInverse ==
    /\ pc = "idle"
    /\ \E u \in UiAmounts : uiAmount' = u
    /\ op' = Inverse
    /\ pc' = "awaitAccountInfo"
    /\ calls' = Append(calls, "getAccountInfo")
    /\ UNCHANGED <<amount, mint, accountInfo, mintInfo, timestamp, formula, uiResult,
                   amountResult, error>>
    /\ UNCHANGED serverVars

\* connection.getAccountInfo rejects: the rejection propagates out of the
\* async function
AccountInfoRejected ==
    /\ pc = "awaitAccountInfo"
    /\ pc' = "thrown"
    /\ error' = "getAccountInfo failed"
    /\ UNCHANGED <<op, amount, uiAmount, mint, accountInfo, mintInfo, timestamp, formula,
                   uiResult, amountResult, calls>>
    /\ UNCHANGED serverVars

OwnerRecognizedAny(info) == info.exists

OwnerRecognized(info) ==
    info.exists /\ (info.owner = TOKEN_PROGRAM_ID \/ info.owner = TOKEN_2022_PROGRAM_ID)

IsPlainIgnoringScaled(info) == ~getInterestBearingMintConfigState(info).present

IsPlain(info) ==
    ~getInterestBearingMintConfigState(info).present /\ ~getScaledUiAmountConfig(info).present

\* connection.getAccountInfo resolves: the function runs on to its return,
\* its throw or its next await (the clock)
AccountInfoResolved ==
    /\ pc = "awaitAccountInfo"
    /\ accountInfo' = Assigned(mint)
    /\ IF ~OwnerRecognized(mint)
       THEN /\ pc' = "thrown"
            /\ error' = "Invalid program ID"
            /\ UNCHANGED <<mintInfo, formula, uiResult, amountResult, calls>>
       ELSE IF unpackMintThrows(mint)
       THEN /\ pc' = "thrown"
            /\ error' = "unpackMint failed"
            /\ UNCHANGED <<mintInfo, formula, uiResult, amountResult, calls>>
       ELSE /\ mintInfo' = unpackMint(mint)
            /\ IF IsPlain(mintInfo')
               THEN /\ formula' = "plain"
                    /\ IF op = Forward
                       THEN /\ uiResult' = PlainUiAmount(amount, mintInfo'.decimals)
                            /\ pc' = "returned"
                            /\ UNCHANGED <<amountResult, error>>
                       ELSE /\ amountResult' = PlainAmount(uiAmount, mintInfo'.decimals)
                            /\ pc' = IF amountResult'.thrown THEN "thrown" ELSE "returned"
                            /\ error' = IF amountResult'.thrown THEN "RangeError" ELSE error
                            /\ UNCHANGED uiResult
                    /\ UNCHANGED calls
               ELSE /\ pc' = "awaitClock"
                    /\ calls' = Append(calls, "getParsedAccountInfo")
                    /\ UNCHANGED <<formula, uiResult, amountResult, error>>
    /\ UNCHANGED <<op, amount, uiAmount, mint, timestamp>>
    /\ UNCHANGED serverVars

\* getSysvarClockTimestamp: connection.getParsedAccountInfo rejects
ClockRejected ==
    /\ pc = "awaitClock"
    /\ pc' = "thrown"
    /\ error' = "getParsedAccountInfo failed"
    /\ UNCHANGED <<op, amount, uiAmount, mint, accountInfo, mintInfo, timestamp, formula,
                   uiResult, amountResult, calls>>
    /\ UNCHANGED serverVars

ClockAbsentRetried ==
    /\ pc = "awaitClock"
    /\ Len(calls) < 3
    /\ calls' = Append(calls, "getParsedAccountInfo")
    /\ UNCHANGED <<op, pc, amount, uiAmount, mint, accountInfo, mintInfo, timestamp, formula,
                   uiResult, amountResult, error>>
    /\ UNCHANGED serverVars

\* getSysvarClockTimestamp: the response carries no value
ClockAbsent ==
    /\ pc = "awaitClock"
    /\ pc' = "thrown"
    /\ error' = "Failed to fetch sysvar clock"
    /\ UNCHANGED <<op, amount, uiAmount, mint, accountInfo, mintInfo, timestamp, formula,
                   uiResult, amountResult, calls>>
    /\ UNCHANGED serverVars

\* getSysvarClockTimestamp: the value's data is not a parsed record
ClockUnparsed ==
    /\ pc = "awaitClock"
    /\ pc' = "thrown"
    /\ error' = "Failed to parse sysvar clock"
    /\ UNCHANGED <<op, amount, uiAmount, mint, accountInfo, mintInfo, timestamp, formula,
                   uiResult, amountResult, calls>>
    /\ UNCHANGED serverVars

SelectMultiplierStrict(config, now) ==
    IF now > config.newMultiplierEffectiveTimestamp
    THEN config.newMultiplier
    ELSE config.multiplier

\* The multiplier in force at the clock reading
SelectMultiplier(config, now) ==
    IF now >= config.newMultiplierEffectiveTimestamp
    THEN config.newMultiplier
    ELSE config.multiplier

ForwardSpecialScaledFirst(a, info, now) ==
    IF getScaledUiAmountConfig(info).present
    THEN amountToUiAmountForScaledUiAmountMintWithoutSimulation(
             a, info.decimals, SelectMultiplier(getScaledUiAmountConfig(info), now))
    ELSE amountToUiAmountForInterestBearingMintWithoutSimulation(
             a, info.decimals, now,
             getInterestBearingMintConfigState(info).lastUpdateTimestamp,
             getInterestBearingMintConfigState(info).initializationTimestamp,
             getInterestBearingMintConfigState(info).preUpdateAverageRate,
             getInterestBearingMintConfigState(info).currentRate)

ForwardSpecial(a, info, now) ==
    IF getInterestBearingMintConfigState(info).present
    THEN amountToUiAmountForInterestBearingMintWithoutSimulation(
             a, info.decimals, now,
             getInterestBearingMintConfigState(info).lastUpdateTimestamp,
             getInterestBearingMintConfigState(info).initializationTimestamp,
             getInterestBearingMintConfigState(info).preUpdateAverageRate,
             getInterestBearingMintConfigState(info).currentRate)
    ELSE amountToUiAmountForScaledUiAmountMintWithoutSimulation(
             a, info.decimals, SelectMultiplier(getScaledUiAmountConfig(info), now))

InverseSpecial(u, info, now) ==
    IF getInterestBearingMintConfigState(info).present
    THEN uiAmountToAmountForInterestBearingMintWithoutSimulation(
             u, info.decimals, now,
             getInterestBearingMintConfigState(info).lastUpdateTimestamp,
             getInterestBearingMintConfigState(info).initializationTimestamp,
             getInterestBearingMintConfigState(info).preUpdateAverageRate,
             getInterestBearingMintConfigState(info).currentRate)
    ELSE uiAmountToAmountForScaledUiAmountMintWithoutSimulation(
             u, info.decimals, SelectMultiplier(getScaledUiAmountConfig(info), now))

SpecialFormula(info) ==
    IF getInterestBearingMintConfigState(info).present THEN "interest" ELSE "scaled"

\* getSysvarClockTimestamp returns the parsed unixTimestamp and the function
\* runs to its end
ClockResolved ==
    /\ pc = "awaitClock"
    /\ \E now \in ClockReadings : timestamp' = now
    /\ formula' = SpecialFormula(mintInfo)
    /\ IF op = Forward
       THEN /\ uiResult' = ForwardSpecial(amount, mintInfo, timestamp')
            /\ pc' = "returned"
            /\ UNCHANGED <<amountResult, error>>
       ELSE /\ amountResult' = InverseSpecial(uiAmount, mintInfo, timestamp')
            /\ pc' = IF amountResult'.thrown THEN "thrown" ELSE "returned"
            /\ error' = IF amountResult'.thrown THEN "RangeError" ELSE error
            /\ UNCHANGED uiResult
    /\ UNCHANGED <<op, amount, uiAmount, mint, accountInfo, mintInfo, calls>>
    /\ UNCHANGED serverVars

Next ==
    \/ CallForward
    \/ CallInverse
    \/ AccountInfoRejected
    \/ AccountInfoResolved
    \/ ClockRejected
    \/ ClockAbsent
    \/ ClockUnparsed
    \/ ClockResolved

Spec == Init /\ [][Next]_vars

(***************************************************************************)
(* Properties of the dispatch functions                                    *)
(***************************************************************************)
HasConfig(info) == info.interest.present \/ info.scaled.present

\* The call has run one of the conversion formulas to its end: it returned,
\* or BigInt() threw on a value that is no integer
Converted == pc = "returned" \/ error = "RangeError"

\* C1: when the fetched account is missing or owned by neither token
\* program, the call ends in 'Invalid program ID' whatever the account's
\* data; the mint is not decoded, the clock is not fetched, no amount is
\* returned.
C1_InvalidProgramId ==
    (/\ accountInfo.assigned
     /\ ~(/\ accountInfo.value.exists
          /\ accountInfo.value.owner \in {TOKEN_PROGRAM_ID, TOKEN_2022_PROGRAM_ID}))
    => /\ pc = "thrown"
       /\ error = "Invalid program ID"
       /\ mintInfo = NotDecoded
       /\ calls = <<"getAccountInfo">>
       /\ timestamp = 0
       /\ formula = "none"
       /\ uiResult = << >>
       /\ amountResult = NoBigInt

C1_Witness ==
    /\ op = Inverse
    /\ accountInfo.assigned
    /\ accountInfo.value.owner = SYSTEM_PROGRAM_ID
    /\ ~accountInfo.value.data.malformed
    /\ accountInfo.value.data.scaled.present
    /\ error = "Invalid program ID"

\* C2: for a mint with a scaled-UI configuration and no interest-bearing
\* one, both directions convert with multiplier at every clock reading
\* below newMultiplierEffectiveTimestamp and with newMultiplier from that
\* reading on; 1_000_000 of a mint with 6 decimals, multipliers 2 and 3 and
\* effective timestamp 1000, is "2" at 999 and "3" at 1000.
C2_ScaledMultiplierSwitch ==
    (Converted /\ mintInfo.decoded /\ mintInfo.scaled.present /\ ~mintInfo.interest.present)
    => LET inForce == IF timestamp < mintInfo.scaled.newMultiplierEffectiveTimestamp
                      THEN mintInfo.scaled.multiplier
                      ELSE mintInfo.scaled.newMultiplier
       IN  /\ op = Forward =>
                uiResult = amountToUiAmountForScaledUiAmountMintWithoutSimulation(
                               amount, mintInfo.decimals, inForce)
           /\ op = Inverse =>
                amountResult = uiAmountToAmountForScaledUiAmountMintWithoutSimulation(
                                   uiAmount, mintInfo.decimals, inForce)
           /\ (/\ op = Forward
               /\ amount = BigOfInt(1000000)
               /\ mintInfo.decimals = 6
               /\ mintInfo.scaled = Scaled(NumOfInt(2), NumOfInt(3), 1000))
              => /\ timestamp = 999 => uiResult = <<"2">>
                 /\ timestamp = 1000 => uiResult = <<"3">>

C2_Witness ==
    /\ op = Forward
    /\ pc = "returned"
    /\ mintInfo.scaled = Scaled(NumOfInt(2), NumOfInt(3), 1000)
    /\ ~mintInfo.interest.present
    /\ amount = BigOfInt(1000000)
    /\ timestamp = 1000
    /\ uiResult = <<"3">>

\* C4: the ledger is asked in a fixed order: getAccountInfo once and first;
\* the clock once and second, and only for a decoded mint that has an
\* interest-bearing or a scaled-UI configuration; a plain mint is converted
\* after the one call, any other after the two.
C4_LedgerCallOrder ==
    /\ Len(calls) <= 2
    /\ pc # "idle" => Len(calls) >= 1 /\ calls[1] = "getAccountInfo"
    /\ Len(calls) = 2 =>
          /\ calls[2] = "getParsedAccountInfo"
          /\ mintInfo.decoded
          /\ HasConfig(mintInfo)
    /\ Converted => Len(calls) = (IF HasConfig(mintInfo) THEN 2 ELSE 1)
    /\ formula = "plain" => calls = <<"getAccountInfo">>

C4_Witness ==
    /\ pc = "returned"
    /\ mintInfo.decoded
    /\ ~HasConfig(mintInfo)
    /\ calls = <<"getAccountInfo">>
    /\ uiResult = <<"1", ".", "5">>

FetchFailures ==
    {"getAccountInfo failed", "getParsedAccountInfo failed",
     "Failed to fetch sysvar clock", "Failed to parse sysvar clock"}

\* C5: a failed account fetch or clock fetch (rejected, no value, not
\* parsed) ends the call in an error: no ledger request is repeated, no
\* conversion formula is evaluated, no amount is returned, and the call
\* takes no further step.
C5_FetchFailureIsFatal ==
    /\ [](error \in FetchFailures =>
            /\ pc = "thrown"
            /\ formula = "none"
            /\ uiResult = << >>
            /\ amountResult = NoBigInt
            /\ \A i, j \in 1..Len(calls) : calls[i] = calls[j] => i = j)
    /\ [][error \notin FetchFailures]_vars

C5_Witness ==
    /\ op = Inverse
    /\ pc = "thrown"
    /\ error = "Failed to parse sysvar clock"
    /\ calls = <<"getAccountInfo", "getParsedAccountInfo">>

\* C11: a decoded mint is converted under exactly one regime, the same in
\* both directions: plain iff it has neither configuration, interest-bearing
\* iff it has the interest-bearing configuration (a scaled-UI configuration
\* next to it is ignored), scaled iff it has the scaled-UI configuration
\* only; the value returned is that of the one formula, so the accrual
\* factor and the multiplier are never both applied.
C11_OneRegime ==
    (Converted /\ mintInfo.decoded)
    => /\ mintInfo.interest.present <=> formula = "interest"
       /\ (mintInfo.scaled.present /\ ~mintInfo.interest.present) <=> formula = "scaled"
       /\ (~mintInfo.scaled.present /\ ~mintInfo.interest.present) <=> formula = "plain"
       /\ (op = Forward /\ formula = "plain") =>
             uiResult = PlainUiAmount(amount, mintInfo.decimals)
       /\ (op = Inverse /\ formula = "plain") =>
             amountResult = PlainAmount(uiAmount, mintInfo.decimals)
       /\ (op = Forward /\ formula = "interest") =>
             uiResult = amountToUiAmountForInterestBearingMintWithoutSimulation(
                            amount, mintInfo.decimals, timestamp,
                            mintInfo.interest.lastUpdateTimestamp,
                            mintInfo.interest.initializationTimestamp,
                            mintInfo.interest.preUpdateAverageRate,
                            mintInfo.interest.currentRate)
       /\ (op = Inverse /\ formula = "interest") =>
             amountResult = uiAmountToAmountForInterestBearingMintWithoutSimulation(
                                uiAmount, mintInfo.decimals, timestamp,
                                mintInfo.interest.lastUpdateTimestamp,
                                mintInfo.interest.initializationTimestamp,
                                mintInfo.interest.preUpdateAverageRate,
                                mintInfo.interest.currentRate)
       /\ (op = Forward /\ formula = "scaled") =>
             uiResult = amountToUiAmountForScaledUiAmountMintWithoutSimulation(
                            amount, mintInfo.decimals,
                            SelectMultiplier(mintInfo.scaled, timestamp))
       /\ (op = Inverse /\ formula = "scaled") =>
             amountResult = uiAmountToAmountForScaledUiAmountMintWithoutSimulation(
                                uiAmount, mintInfo.decimals,
                                SelectMultiplier(mintInfo.scaled, timestamp))

C11_Witness ==
    /\ op = Forward
    /\ pc = "returned"
    /\ mintInfo.interest.present
    /\ mintInfo.scaled.present
    /\ formula = "interest"
    /\ amount = BigOfInt(500000)
    /\ uiResult # << >>

(***************************************************************************)
(* The conversion formulas on their own: the formulas are pure functions   *)
(* of the amount, the decimals, the configuration and the clock reading,   *)
(* and are applied here to arguments beyond what the ledger of Spec holds  *)
(* (amounts above 2^53, fractional multipliers, negative rates).           *)
(***************************************************************************)
\* raw amounts 0 and 10^0 .. 10^MaxPower
MaxPower == 6
\* raw amounts 2^54 .. 2^54 + MaxExcess
MaxExcess == 2
\* the largest number of decimals of a mint
MaxDecimals == 18

SmallAmounts == {BigOfInt(0)} \cup {BigOfInt(10^k) : k \in 0..MaxPower}

LargeAmounts == {BigAdd(BigShl(BigOne, 54), BigOfInt(k)) : k \in 0..MaxExcess}

\* multipliers k / 10
Tenths(k) == NumDiv(NumOfInt(k), NumOfInt(10))

Case(a, info, now) == [amount |-> a, mintInfo |-> info, now |-> now]

PlainCases ==
    {Case(a, unpackMint(Account(TOKEN_PROGRAM_ID, MintData(d, NoInterest, NoScaled))), 0) :
        a \in SmallAmounts \cup LargeAmounts, d \in {0, HUM_DECIMALS, MaxDecimals}}

ScaledCases ==
    {Case(a, unpackMint(Account(TOKEN_2022_PROGRAM_ID,
                                MintData(d, NoInterest, Scaled(Tenths(k), NumOfInt(3), 1000)))), 999) :
        a \in SmallAmounts \cup LargeAmounts, d \in {0, HUM_DECIMALS}, k \in {7, 10, 15}}

\* Configurations whose two segments both have an empty span or a zero rate
IdleInterest ==
    {[config |-> Interest(0, 0, 0, 0), now |-> 31557600],
     [config |-> Interest(500, 500, 5000, 0), now |-> 31557600],
     [config |-> Interest(0, 500, 0, -5000), now |-> 500]}

\* Configurations that accrue interest in one segment
AccruingInterest ==
    {[config |-> Interest(0, 31557600, 5000, 0), now |-> 31557600],
     [config |-> Interest(0, 500, 0, 5000), now |-> 31557600]}

InterestCases ==
    {Case(a, unpackMint(Account(TOKEN_2022_PROGRAM_ID, MintData(d, c.config, NoScaled))), c.now) :
        a \in SmallAmounts \cup LargeAmounts, d \in {0, HUM_DECIMALS}, c \in IdleInterest}
    \cup
    {Case(BigOfInt(1000000), unpackMint(Account(TOKEN_2022_PROGRAM_ID,
                                                MintData(HUM_DECIMALS, c.config, NoScaled))), c.now) :
        c \in AccruingInterest}

ConversionCases == PlainCases \cup ScaledCases \cup InterestCases

InitConversion ==
    /\ op = ""
    /\ pc = "idle"
    /\ \E c \in ConversionCases :
          /\ amount = c.amount
          /\ mintInfo = c.mintInfo
          /\ timestamp = c.now
    /\ uiAmount = << >>
    /\ mint = NullAccount
    /\ accountInfo = Unassigned
    /\ formula = "none"
    /\ uiResult = << >>
    /\ amountResult = NoBigInt
    /\ error = ""
    /\ calls = << >>
    /\ ServerIdle

\* (Number(amount) / getDecimalFactor(decimals)).toString()
ApplyPlainForward ==
    /\ pc = "idle"
    /\ IsPlain(mintInfo)
    /\ op' = Forward
    /\ formula' = "plain"
    /\ uiResult' = PlainUiAmount(amount, mintInfo.decimals)
    /\ pc' = "returned"
    /\ UNCHANGED <<amount, uiAmount, mint, accountInfo, mintInfo, timestamp, amountResult,
                   error, calls>>
    /\ UNCHANGED serverVars

\* The string a plain forward conversion returned is converted back:
\* BigInt(Math.trunc(uiAmountToAtomicUiAmount(uiAmount, decimals)))
ApplyPlainInverse ==
    /\ pc = "returned"
    /\ op = Forward
    /\ formula = "plain"
    /\ op' = Inverse
    /\ uiAmount' = uiResult
    /\ amountResult' = PlainAmount(uiResult, mintInfo.decimals)
    /\ pc' = IF amountResult'.thrown THEN "thrown" ELSE "returned"
    /\ error' = IF amountResult'.thrown THEN "RangeError" ELSE error
    /\ UNCHANGED <<amount, mint, accountInfo, mintInfo, timestamp, formula, uiResult, calls>>
    /\ UNCHANGED serverVars

\* amountToUiAmountForInterestBearingMintWithoutSimulation or
\* amountToUiAmountForScaledUiAmountMintWithoutSimulation, as the dispatch
\* function calls them
ApplySpecialForward ==
    /\ pc = "idle"
    /\ ~IsPlain(mintInfo)
    /\ op' = Forward
    /\ formula' = SpecialFormula(mintInfo)
    /\ uiResult' = ForwardSpecial(amount, mintInfo, timestamp)
    /\ pc' = "returned"
    /\ UNCHANGED <<amount, uiAmount, mint, accountInfo, mintInfo, timestamp, amountResult,
                   error, calls>>
    /\ UNCHANGED serverVars

NextConversion ==
    \/ ApplyPlainForward
    \/ ApplyPlainInverse
    \/ ApplySpecialForward

SpecConversion == InitConversion /\ [][NextConversion]_vars

(***************************************************************************)
(* Properties of the conversion formulas                                   *)
(***************************************************************************)
\* The factor a forward conversion of a configured mint multiplies by:
\* totalScale, or the multiplier in force
AppliedFactor(info, now) ==
    IF getInterestBearingMintConfigState(info).present
    THEN NumMul(calculateExponentForTimesAndRate(
                    getInterestBearingMintConfigState(info).initializationTimestamp,
                    getInterestBearingMintConfigState(info).lastUpdateTimestamp,
                    getInterestBearingMintConfigState(info).preUpdateAverageRate),
                calculateExponentForTimesAndRate(
                    getInterestBearingMintConfigState(info).lastUpdateTimestamp,
                    now,
                    getInterestBearingMintConfigState(info).currentRate))
    ELSE SelectMultiplier(getScaledUiAmountConfig(info), now)

\* str is the decimal numeral of the natural number n
IsNumeralOf(str, n) ==
    /\ Len(str) >= 1
    /\ \A i \in 1..Len(str) : IsDigit(str[i])
    /\ Len(str) > 1 => str[1] # "0"
    /\ BigOfDigits(str) = n

\* The position of the decimal point of str, Len(str) + 1 if it has none
PointOf(str) == MinOf({i \in 1..(Len(str) + 1) : i = Len(str) + 1 \/ str[i] = "."})

\* str is a numeral with at most d digits after its point
IsDecimal(str, d) ==
    /\ PointOf(str) > 1
    /\ Len(str) - PointOf(str) <= d
    /\ PointOf(str) <= Len(str) => PointOf(str) < Len(str)
    /\ \A i \in 1..Len(str) : i # PointOf(str) => IsDigit(str[i])

\* The natural number str * 10^d, for a decimal str
AtomicUnits(str, d) ==
    BigMul(BigOfDigits(Slice(str, 1, PointOf(str) - 1)
                       \o Slice(str, PointOf(str) + 1, Len(str))),
           BigPow10(d - Max(0, Len(str) - PointOf(str))))

\* n <= a * f < n + 1, in exact arithmetic, for a finite f >= 0
IsFloorOfProduct(n, a, f) ==
    /\ f.cls = "fin"
    /\ ~f.neg
    /\ BigCmp(BigShl(n, Max(0, -f.e)), BigShl(BigMul(a, f.m), Max(0, f.e))) <= 0
    /\ BigCmp(BigShl(BigMul(a, f.m), Max(0, f.e)), BigShl(BigAdd(n, BigOne), Max(0, -f.e))) < 0

\* C6: raw amounts are converted without loss of precision: with zero
\* decimals the plain forward conversion returns the exact decimal numeral
\* of the amount, and so do the interest-bearing conversion with factor 1
\* and the scaled conversion with multiplier 1, also for amounts above 2^53.
C6_NoPrecisionLoss ==
    (/\ op = Forward
     /\ pc = "returned"
     /\ mintInfo.decimals = 0
     /\ formula # "plain" => AppliedFactor(mintInfo, timestamp) = NumOne)
    => IsNumeralOf(uiResult, amount)

\* C7: a plain forward conversion followed by the plain inverse conversion
\* of its result yields a value that differs from the amount by at most 1.
C7_PlainRoundTrip ==
    (op = Inverse /\ formula = "plain")
    => /\ pc = "returned"
       /\ ~amountResult.neg
       /\ BigCmp(amountResult.mag, BigAdd(amount, BigOne)) <= 0
       /\ BigCmp(amount, BigAdd(amountResult.mag, BigOne)) <= 0

\* C8: the accrual factor of a segment is 1 when the segment is empty
\* (t1 = t2), whatever the rate, and when the rate is 0, whatever the span;
\* when both segments are so, the interest-bearing conversion returns the
\* string of the plain conversion; with an all-zero configuration at
\* currentTimestamp 31557600, 1_000_000 at 6 decimals is "1".
C8_IdleAccrual ==
    (op = Forward /\ pc = "returned" /\ formula = "interest")
    => /\ (\/ mintInfo.interest.initializationTimestamp = mintInfo.interest.lastUpdateTimestamp
           \/ mintInfo.interest.preUpdateAverageRate = 0)
          => calculateExponentForTimesAndRate(mintInfo.interest.initializationTimestamp,
                                              mintInfo.interest.lastUpdateTimestamp,
                                              mintInfo.interest.preUpdateAverageRate) = NumOne
       /\ (\/ mintInfo.interest.lastUpdateTimestamp = timestamp
           \/ mintInfo.interest.currentRate = 0)
          => calculateExponentForTimesAndRate(mintInfo.interest.lastUpdateTimestamp,
                                              timestamp,
                                              mintInfo.interest.currentRate) = NumOne
       /\ (/\ (\/ mintInfo.interest.initializationTimestamp = mintInfo.interest.lastUpdateTimestamp
               \/ mintInfo.interest.preUpdateAverageRate = 0)
           /\ (\/ mintInfo.interest.lastUpdateTimestamp = timestamp
               \/ mintInfo.interest.currentRate = 0))
          => uiResult = PlainUiAmount(amount, mintInfo.decimals)
       /\ (/\ mintInfo.interest = Interest(0, 0, 0, 0)
           /\ timestamp = 31557600
           /\ amount = BigOfInt(1000000)
           /\ mintInfo.decimals = 6)
          => uiResult = <<"1">>

C8_Witness ==
    /\ op = Forward
    /\ pc = "returned"
    /\ formula = "interest"
    /\ mintInfo.interest = Interest(500, 500, 5000, 0)
    /\ timestamp = 31557600
    /\ amount = BigOfInt(1000000)
    /\ mintInfo.decimals = 6
    /\ uiResult = <<"1">>

\* C9: the forward conversions of configured mints truncate before they
\* divide: result * 10^decimals is the integer n with
\* n <= amount * f < n + 1, f being totalScale or the multiplier in force.
C9_TruncatesBeforeDividing ==
    (op = Forward /\ pc = "returned" /\ formula \in {"interest", "scaled"})
    => /\ IsDecimal(uiResult, mintInfo.decimals)
       /\ IsFloorOfProduct(AtomicUnits(uiResult, mintInfo.decimals), amount,
                           AppliedFactor(mintInfo, timestamp))

(***************************************************************************)
(* amountToUiAmount: the conversion by simulating the token program's      *)
(* AmountToUiAmount instruction.  The RPC node returns the program's       *)
(* return data base64-encoded; Buffer.from(data, encoding) decodes it and  *)
(* toString('utf-8') turns the bytes into a string.                        *)
(***************************************************************************)
Base64Alphabet == <<"A", "B", "C", "D", "E", "F", "G", "H", "I", "J", "K", "L", "M", "N", "O", "P", "Q", "R", "S", "T", "U", "V", "W", "X", "Y", "Z", "a", "b", "c", "d", "e", "f", "g", "h", "i", "j", "k", "l", "m", "n", "o", "p", "q", "r", "s", "t", "u", "v", "w", "x", "y", "z", "0", "1", "2", "3", "4", "5", "6", "7", "8", "9", "+", "/">>

\* The characters of codes 32 .. 126 (the quotation mark, the backslash
\* and the grave accent by their code points)
Ascii == <<" ", "!", "U+0022", "#", "$", "%", "&", "'", "(", ")", "*", "+", ",", "-", ".", "/", "0", "1", "2", "3", "4", "5", "6", "7", "8", "9", ":", ";", "<", "=", ">", "?", "@", "A", "B", "C", "D", "E", "F", "G", "H", "I", "J", "K", "L", "M", "N", "O", "P", "Q", "R", "S", "T", "U", "V", "W", "X", "Y", "Z", "[", "U+005C", "]", "^", "_", "U+0060", "a", "b", "c", "d", "e", "f", "g", "h", "i", "j", "k", "l", "m", "n", "o", "p", "q", "r", "s", "t", "u", "v", "w", "x", "y", "z", "{", "|", "}", "~">>

REPLACEMENT_CHARACTER == "U+FFFD"

CodeOf(c) == 31 + (CHOOSE i \in 1..Len(Ascii) : Ascii[i] = c)

\* The UTF-8 bytes of a string of ASCII characters
Utf8Encode(str) == [i \in 1..Len(str) |-> CodeOf(str[i])]

\* bytes.toString('utf-8'): bytes outside 32 .. 126 do not occur in the
\* return data of the model and are shown as the replacement character
Utf8Decode(bytes) ==
    [i \in 1..Len(bytes) |-> IF bytes[i] \in 32..126 THEN Ascii[bytes[i] - 31]
                             ELSE REPLACEMENT_CHARACTER]

ByteOrZero(bytes, i) == IF i <= Len(bytes) THEN bytes[i] ELSE 0

\* The base64 text of bytes, as the RPC node produces it
Base64Encode(bytes) ==
    [p \in 1..(4 * ((Len(bytes) + 2) \div 3)) |->
        IF (6 * (p - 1)) \div 8 + 1 > Len(bytes) THEN "="
        ELSE Base64Alphabet[
                 (((bytes[(6 * (p - 1)) \div 8 + 1] * 256
                    + ByteOrZero(bytes, (6 * (p - 1)) \div 8 + 2))
                   \div 2^(10 - ((6 * (p - 1)) % 8))) % 64) + 1]]

Sextet(c) == (CHOOSE i \in 1..64 : Base64Alphabet[i] = c) - 1

\* The number of characters of str before its padding
Unpadded(str) == MaxOf({0} \cup {i \in 1..Len(str) : str[i] # "="})

\* Buffer.from(str, 'base64')
Base64Decode(str) ==
    [j \in 1..((6 * Unpadded(str)) \div 8) |->
        ((Sextet(str[(8 * (j - 1)) \div 6 + 1]) * 64
          + Sextet(str[(8 * (j - 1)) \div 6 + 2]))
         \div 2^(4 - ((8 * (j - 1)) % 6))) % 256]

\* largest UI amount the simulated program returns, in steps of 3.5
MaxReturned == 5

ReturnTexts == {<< >>} \cup {HalfTokens(7 * k) : k \in 0..MaxReturned}

TransactionErrors ==
    {NullErr, Err("AccountNotFound"), Err("BlockhashNotFound"), Err("InstructionError")}

\* The values simulateTransaction resolves to: return data or none, next to
\* an err or null
SimulationValues ==
    {[resolved |-> TRUE, hasReturnData |-> TRUE, data |-> Base64Encode(Utf8Encode(t)),
      encoding |-> "base64", err |-> e, text |-> t] : t \in ReturnTexts, e \in TransactionErrors}
    \cup
    {[resolved |-> TRUE, hasReturnData |-> FALSE, data |-> << >>, encoding |-> "",
      err |-> e, text |-> << >>] : e \in TransactionErrors}

ToUiAmount == "amountToUiAmount"

ReturnedErrFirst(value) ==
    IF value.err.null /\ value.hasReturnData
    THEN [kind |-> "string", text |-> Utf8Decode(Base64Decode(value.data)), err |-> NullErr]
    ELSE [kind |-> "err", text |-> << >>, err |-> value.err]

\* if (returnData?.data) return Buffer.from(...).toString('utf-8'); return err
Returned(value) ==
    IF value.hasReturnData
    THEN [kind |-> "string", text |-> Utf8Decode(Base64Decode(value.data)), err |-> NullErr]
    ELSE [kind |-> "err", text |-> << >>, err |-> value.err]

InitSimulation ==
    /\ Idle
    /\ mint = NullAccount
    /\ ServerIdle

\* amountToUiAmount(connection, payer, mint, amount, programId) is called:
\* it builds the transaction and awaits simulateTransaction
CallAmountToUiAmount ==
    /\ pc = "idle"
    /\ \E a \in Amounts : amount' = a
    /\ op' = ToUiAmount
    /\ pc' = "awaitSimulation"
    /\ calls' = Append(calls, "simulateTransaction")
    /\ UNCHANGED <<error, dispatchVars, serverVars>>

\* connection.simulateTransaction rejects
SimulationRejected ==
    /\ pc = "awaitSimulation"
    /\ pc' = "thrown"
    /\ error' = "simulateTransaction failed"
    /\ UNCHANGED <<op, amount, calls, dispatchVars, serverVars>>

\* connection.simulateTransaction resolves and the function returns
SimulationResolved ==
    /\ pc = "awaitSimulation"
    /\ \E v \in SimulationValues : simulation' = v
    /\ outcome' = Returned(simulation')
    /\ pc' = "returned"
    /\ UNCHANGED <<op, amount, error, calls, dispatchVars, request, webhook, reward,
                   transfers>>

NextSimulation ==
    \/ CallAmountToUiAmount
    \/ SimulationRejected
    \/ SimulationResolved

SpecSimulation == InitSimulation /\ [][NextSimulation]_vars

\* C10: amountToUiAmount issues exactly one simulateTransaction and nothing
\* else; it returns the string the return data decodes to whenever the
\* simulation carries return data, whatever err is, and it returns the
\* simulation's err, null included, exactly when there is no return data.
C10_SimulationOutcome ==
    /\ op = ToUiAmount => calls = <<"simulateTransaction">>
    /\ (op = ToUiAmount /\ pc = "returned") =>
          /\ simulation.resolved
          /\ simulation.hasReturnData =>
                /\ outcome.kind = "string"
                /\ outcome.text = simulation.text
          /\ ~simulation.hasReturnData =>
                /\ outcome.kind = "err"
                /\ outcome.err = simulation.err
    /\ (op = ToUiAmount /\ pc # "returned") => outcome = NoOutcome
    /\ transfers = << >>

C10_Witness ==
    /\ op = ToUiAmount
    /\ pc = "returned"
    /\ simulation.hasReturnData
    /\ ~simulation.err.null
    /\ simulation.data = <<"M", "T", "A", "u", "N", "Q", "=", "=">>
    /\ outcome.kind = "string"
    /\ outcome.text = <<"1", "0", ".", "5">>

(***************************************************************************)
(* The HTTP server (first half of server.js).  One client request is       *)
(* followed from its arrival to its response.  PublicKey,                  *)
(* getOrCreateAssociatedTokenAccount, transfer and fetch are library calls *)
(* modelled by their contract: each either resolves or rejects.            *)
(***************************************************************************)
ADGEM_KEY == Str(<<"l", "e", "9", "n", "n", "n", "l", "9", "3", "c", "a", "h", "3", "1", "3", "b", "b", "n", "e", "c", "9", "8", "7", "a">>)

\* the wallet of the model: a base58 string of the length of a public key
AWallet == <<"9", "4", "a", "u", "8", "h", "f", "P", "6", "c", "S", "E", "d", "n", "q", "x", "q", "d", "G", "g", "F", "u", "h", "7", "k", "3", "i", "H", "y", "h", "m", "N", "f", "z", "S", "k", "c", "c", "o", "p", "R", "D", "C", "W">>

Base58 == <<"1", "2", "3", "4", "5", "6", "7", "8", "9", "A", "B", "C", "D", "E", "F", "G", "H", "J", "K", "L", "M", "N", "P", "Q", "R", "S", "T", "U", "V", "W", "X", "Y", "Z", "a", "b", "c", "d", "e", "f", "g", "h", "i", "j", "k", "m", "n", "o", "p", "q", "r", "s", "t", "u", "v", "w", "x", "y", "z">>

\* new PublicKey(value) throws unless value decodes to 32 bytes
IsPublicKey(str) ==
    /\ Len(str) \in 32..44
    /\ \A i \in 1..Len(str) : \E j \in 1..Len(Base58) : Base58[j] = str[i]

\* !!value
Truthy(v) ==
    CASE v.type = "undefined" -> FALSE
      [] v.type = "number" -> ~v.nan /\ v.num # 0
      [] v.type = "string" -> v.str # << >>

\* a || b
OrElse(a, b) == IF Truthy(a) THEN a ELSE b

\* Number(value), for the values of the model: strings are empty, decimal
\* digits only, or no numeral at all
ToNumber(v) ==
    CASE v.type = "undefined" -> NaN
      [] v.type = "number" -> v
      [] v.type = "string" ->
            IF \A i \in 1..Len(v.str) : IsDigit(v.str[i])
            THEN Num(BigToInt(BigOfDigits(v.str)))
            ELSE NaN

\* amount * 10 ** 6
TokenUnits(v) == IF ToNumber(v).nan THEN NaN ELSE Num(ToNumber(v).num * 10^HUM_DECIMALS)

\* res.status(code).json({ error })
Failed(h, code, message) ==
    [h EXCEPT !.pc = "responded", !.status = code, !.error = message]

\* res.json({ success: true, ... })
Succeeded(h, sig) ==
    [h EXCEPT !.pc = "responded", !.status = 200, !.success = TRUE, !.signature = sig]

\* largest amount of HUM a request asks for
MaxReward == 2

Wallets == {Undefined, Str(<< >>), Str(AWallet), Str(<<"n", "o", "-", "k", "e", "y">>)}

RewardAmounts ==
    {Undefined, Str(<<"a", "b", "c">>)}
    \cup {Num(n) : n \in 0..MaxReward}
    \cup {Str(IntChars(n)) : n \in 1..MaxReward}

Secrets == {Undefined, ADGEM_KEY, Str(<<"g", "u", "e", "s", "s">>)}

\* The /reward handler from its entry to its first await or its response
EnterReward(wallet, amt) ==
    IF ~Truthy(wallet) \/ ~Truthy(amt)
    THEN Failed([NotEntered EXCEPT !.wallet = wallet, !.amount = amt], 400,
                "Missing wallet or amount")
    ELSE IF wallet.type # "string" \/ ~IsPublicKey(wallet.str)
    THEN Failed([NotEntered EXCEPT !.wallet = wallet, !.amount = amt], 500,
                "Invalid public key input")
    ELSE [NotEntered EXCEPT !.wallet = wallet, !.amount = amt, !.pc = "awaitFromAccount"]

\* The /adgem-webhook handler from its entry to its fetch or its response
EnterWebhook(playerWallet, rewardAmount, secret) ==
    IF ~Truthy(playerWallet)
    THEN Failed([NotEntered EXCEPT !.wallet = playerWallet, !.amount = rewardAmount], 400,
                "Missing player_id")
    ELSE IF Truthy(ADGEM_KEY) /\ Truthy(secret) /\ secret # ADGEM_KEY
    THEN Failed([NotEntered EXCEPT !.wallet = playerWallet, !.amount = rewardAmount], 401,
                "Unauthorized")
    ELSE [NotEntered EXCEPT !.wallet = playerWallet, !.amount = rewardAmount,
                            !.pc = "awaitFetch", !.fetched = TRUE]

InitHttp ==
    /\ Idle
    /\ mint = NullAccount
    /\ ServerIdle

\* A client posts { wallet, amount } to /reward
RewardRequested ==
    /\ request = NoRequest
    /\ \E w \in Wallets, a \in RewardAmounts :
          /\ request' = [NoRequest EXCEPT !.route = "/reward", !.wallet = w, !.amount = a]
          /\ reward' = EnterReward(w, a)
    /\ UNCHANGED <<webhook, transfers, simulation, outcome>>
    /\ UNCHANGED <<op, pc, amount, error, calls, dispatchVars>>

\* A client posts { player_id, amount } to /adgem-webhook, with or without a
\* secret in the query and in the x-adgem-secret header
WebhookRequested ==
    /\ request = NoRequest
    /\ \E w \in Wallets, a \in RewardAmounts, q \in Secrets, h \in Secrets :
          /\ request' = [route |-> "/adgem-webhook", wallet |-> w, amount |-> a,
                         query |-> q, header |-> h]
          /\ webhook' = EnterWebhook(w, OrElse(ToNumber(a), Num(0)), OrElse(q, h))
    /\ UNCHANGED <<reward, transfers, simulation, outcome>>
    /\ UNCHANGED <<op, pc, amount, error, calls, dispatchVars>>

\* The webhook's fetch reaches the server: the /reward handler is entered
\* with { wallet: playerWallet, amount: rewardAmount }
FetchDelivered ==
    /\ webhook.pc = "awaitFetch"
    /\ reward.pc = "idle"
    /\ reward' = EnterReward(webhook.wallet, webhook.amount)
    /\ UNCHANGED <<request, webhook, transfers, simulation, outcome>>
    /\ UNCHANGED <<op, pc, amount, error, calls, dispatchVars>>

\* The webhook's fetch rejects (nothing listens on localhost:5000)
FetchRejected ==
    /\ webhook.pc = "awaitFetch"
    /\ reward.pc = "idle"
    /\ webhook' = Failed(webhook, 500, "fetch failed")
    /\ UNCHANGED <<request, reward, transfers, simulation, outcome>>
    /\ UNCHANGED <<op, pc, amount, error, calls, dispatchVars>>

\* getOrCreateAssociatedTokenAccount resolves, for the treasury and then for
\* the user's wallet
TokenAccountResolved ==
    /\ reward.pc \in {"awaitFromAccount", "awaitToAccount"}
    /\ reward' = [reward EXCEPT !.pc = IF reward.pc = "awaitFromAccount"
                                       THEN "awaitToAccount" ELSE "awaitTransfer"]
    /\ UNCHANGED <<request, webhook, transfers, simulation, outcome>>
    /\ UNCHANGED <<op, pc, amount, error, calls, dispatchVars>>

\* One of the three awaited calls of /reward rejects
SdkRejected ==
    /\ reward.pc \in {"awaitFromAccount", "awaitToAccount", "awaitTransfer"}
    /\ reward' = Failed(reward, 500, "sdk failure")
    /\ UNCHANGED <<request, webhook, transfers, simulation, outcome>>
    /\ UNCHANGED <<op, pc, amount, error, calls, dispatchVars>>

\* transfer resolves with the signature of the confirmed transaction
TransferResolved ==
    /\ reward.pc = "awaitTransfer"
    /\ ~TokenUnits(reward.amount).nan
    /\ transfers' = Append(transfers, [to |-> reward.wallet.str,
                                       amount |-> TokenUnits(reward.amount).num,
                                       signature |-> "signature"])
    /\ reward' = Succeeded(reward, "signature")
    /\ UNCHANGED <<request, webhook, simulation, outcome>>
    /\ UNCHANGED <<op, pc, amount, error, calls, dispatchVars>>

\* The webhook's fetch resolves with the response of /reward, whatever it
\* is, and the webhook answers
FetchResolved ==
    /\ webhook.pc = "awaitFetch"
    /\ reward.pc = "responded"
    /\ webhook' = Succeeded(webhook, reward.signature)
    /\ UNCHANGED <<request, reward, transfers, simulation, outcome>>
    /\ UNCHANGED <<op, pc, amount, error, calls, dispatchVars>>

NextHttp ==
    \/ RewardRequested
    \/ WebhookRequested
    \/ FetchDelivered
    \/ FetchRejected
    \/ TokenAccountResolved
    \/ SdkRejected
    \/ TransferResolved
    \/ FetchResolved

SpecHttp == InitHttp /\ [][NextHttp]_vars

\* The secret a webhook request presents
PresentedSecret == OrElse(request.query, request.header)

\* C12: a webhook request whose secret is absent or differs from the AdGem
\* key is answered without any call to /reward: no fetch is issued and the
\* /reward handler is never entered for it.
C12_RewardOnlyWhenAuthenticated ==
    (request.route = "/adgem-webhook" /\ PresentedSecret # ADGEM_KEY)
    => /\ ~webhook.fetched
       /\ reward.pc = "idle"
       /\ transfers = << >>

\* The response the client of the request received
ClientResponse == IF request.route = "/reward" THEN reward ELSE webhook

=============================================================================
